---- MODULE Spec2Model ----
(***************************************************************************)
(* The financial analysis engine of finance_dashboard.py: the six analysis *)
(* helpers, the FinancialAnalyzer object (__init__ and run) and the part   *)
(* of the main script that selects the account and the date range.         *)
(*                                                                         *)
(* Money is counted in integer units, UnitsPerDollar units to the dollar,  *)
(* so that sub-dollar amounts exist.  A percentage or a quotient is kept   *)
(* as an exact fraction [num, den] and compared by cross-multiplication.   *)
(* A message is a record: msg names the template (the f-string) and the    *)
(* other fields are the values handed to the template (their rendering to  *)
(* text, {:.1f} or {:,.0f}, is not part of the model). Arithmetic is       *)
(* exact: the amounts are taken to be free of binary rounding error.       *)
(***************************************************************************)
EXTENDS Integers, Sequences, FiniteSets, TLC

VARIABLES
    pc,              \* position of the run being modelled
    raw_df,          \* main script: the loaded transactions
    analyzer,        \* the FinancialAnalyzer object (None before construction)
    total_income,    \* argument of calculate_savings_health
    total_expenses,  \* argument of calculate_savings_health
    spending,        \* argument of the three category_spending helpers
    df,              \* argument of the two DataFrame helpers
    ret              \* the value a helper returned

vars == <<pc, raw_df, analyzer, total_income, total_expenses, spending, df, ret>>

----------------------------------------------------------------------------
(* Bounds of the model *)

UnitsPerDollar == 2
DaysPerMonth == 2
MaxRows == 3
MaxTx == 3
MaxCats == 4
MaxIncome == 20

----------------------------------------------------------------------------
(* Values *)

None == <<>>
Some(x) == <<x>>

Abs(x) == IF x < 0 THEN -x ELSE x

\* The exact quotient n / d.
Frac(n, d) == [num |-> n, den |-> d]

\* x * 100 for a quotient x
Times100(x) == Frac(x.num * 100, x.den)

\* Comparison of a quotient (den >= 0) with an integer k. With den = 0 this is
\* the comparison of IEEE n/0.0: +inf, -inf, or NaN which compares false.
FracGT(x, k) == IF x.den = 0 THEN x.num > 0 ELSE x.num > k * x.den
FracGE(x, k) == IF x.den = 0 THEN x.num > 0 ELSE x.num >= k * x.den
FracLT(x, k) == IF x.den = 0 THEN x.num < 0 ELSE x.num < k * x.den

Unused == "unused"

----------------------------------------------------------------------------
(* pandas: a DataFrame is a sequence of rows [Date, Amount, Category,       *)
(* Account]; a Series is a sequence of items [index, value].                *)

\* Series.dt.to_period("M"): the month a date (a day number) falls in
Month(date) == date \div DaysPerMonth

RECURSIVE SumAmount(_)
SumAmount(frame) ==
    IF frame = <<>> THEN 0 ELSE Head(frame).Amount + SumAmount(Tail(frame))

RECURSIVE SeriesSum(_)
SeriesSum(series) ==
    IF series = <<>> THEN 0 ELSE Head(series).value + SeriesSum(Tail(series))

RECURSIVE AscendingSeq(_)
AscendingSeq(S) ==
    IF S = {} THEN <<>>
    ELSE LET m == CHOOSE x \in S : \A y \in S : x <= y
         IN  <<m>> \o AscendingSeq(S \ {m})

\* The orders in which an ascending sort may leave the elements whose sort keys
\* are keys[1..n]. sort_values sorts with quicksort, which is not stable:
\* elements with equal keys may come out in any order.
SortOrders(keys) ==
    IF keys = <<>> THEN {<<>>}
    ELSE {p \in Permutations(DOMAIN keys) :
             \A i \in 1..(Len(keys) - 1) : keys[p[i]] <= keys[p[i + 1]]}

Reindex(seq, p) == [i \in 1..Len(seq) |-> seq[p[i]]]

\* df.sort_values("Date"): every result the unstable sort may give
sort_values_Date(frame) ==
    {Reindex(frame, p) : p \in SortOrders([i \in 1..Len(frame) |-> frame[i].Date])}

\* series.sort_values(ascending=False)
sort_values_descending(series) ==
    {Reindex(series, p) : p \in SortOrders([i \in 1..Len(series) |-> -series[i].value])}

\* frame["Month"] = frame["Date"].dt.to_period("M")
WithMonth(frame) ==
    [i \in 1..Len(frame) |->
        [Date |-> frame[i].Date, Amount |-> frame[i].Amount,
         Category |-> frame[i].Category, Account |-> frame[i].Account,
         Month |-> Month(frame[i].Date)]]

\* df.groupby("Month")["Amount"].sum(): one item per month present, the group
\* keys in ascending order
groupby_Month_sum(frame) ==
    LET keys == AscendingSeq({frame[i].Month : i \in DOMAIN frame})
    IN  [k \in 1..Len(keys) |->
            [index |-> keys[k],
             value |-> SumAmount(SelectSeq(frame, LAMBDA r : r.Month = keys[k]))]]

\* The category labels in the order Python compares the strings
Categories == <<"Dining", "Groceries", "Housing", "Transportation", "Utilities">>

CategoryRank(c) == CHOOSE i \in DOMAIN Categories : Categories[i] = c

\* df.groupby("Category")["Amount"].sum(): one item per category present, the
\* group keys in ascending (string) order
groupby_Category_sum(frame) ==
    LET keys == AscendingSeq({CategoryRank(frame[i].Category) : i \in DOMAIN frame})
    IN  [k \in 1..Len(keys) |->
            [index |-> Categories[keys[k]],
             value |-> SumAmount(SelectSeq(frame,
                          LAMBDA r : r.Category = Categories[keys[k]]))]]

\* series.abs()
SeriesAbs(series) ==
    [k \in 1..Len(series) |-> [index |-> series[k].index, value |-> Abs(series[k].value)]]

\* idxmax, were it to report the last item holding the maximum
IdxMaxLast(series) ==
    CHOOSE k \in DOMAIN series :
        /\ \A j \in DOMAIN series : series[j].value <= series[k].value
        /\ \A j \in DOMAIN series : j > k => series[j].value < series[k].value

\* series.idxmax(): the position of the first item holding the maximum
IdxMax(series) ==
    CHOOSE k \in DOMAIN series :
        /\ \A j \in DOMAIN series : series[j].value <= series[k].value
        /\ \A j \in DOMAIN series : j < k => series[j].value < series[k].value

----------------------------------------------------------------------------
(* calculate_savings_health *)

\* the bands, were the thresholds exclusive (> for >=)
SavingsBandStrict(savings_rate) ==
    IF FracGT(savings_rate, 25) THEN "excellent"
    ELSE IF FracGT(savings_rate, 15) THEN "good"
    ELSE IF FracGT(savings_rate, 5) THEN "moderate"
    ELSE "low"

\* the band of a non-negative net_savings, by savings_rate
SavingsBand(savings_rate) ==
    IF FracGE(savings_rate, 25) THEN "excellent"
    ELSE IF FracGE(savings_rate, 15) THEN "good"
    ELSE IF FracGE(savings_rate, 5) THEN "moderate"
    ELSE "low"

calculate_savings_health(ti, te) ==
    IF ti <= 0 THEN [msg |-> "no_income"]
    ELSE LET net_savings == ti + te
             savings_rate == Times100(Frac(net_savings, ti))
         IN  IF net_savings < 0
             THEN [msg |-> "deficit", rate |-> savings_rate]
             ELSE [msg |-> SavingsBand(savings_rate), rate |-> savings_rate]

----------------------------------------------------------------------------
(* generate_month_over_month_insights *)

\* the guard left out: the bands then see (last - prev) / 0
NearZeroOff(prev) == FALSE

\* abs(prev) < 1, prev in units

NearZero(prev) == Abs(prev) < 1 * UnitsPerDollar

\* the bands without the 5% deadband (> 0 / < 0 only)
TrendBandNoDeadband(pct_change) ==
    IF FracGT(pct_change, 0) THEN "improved_significantly"
    ELSE IF FracLT(pct_change, 0) THEN "worsened_significantly"
    ELSE "stable"

\* lines 68-77
TrendBand(pct_change) ==
    IF FracGT(pct_change, 5) THEN "improved_significantly"
    ELSE IF FracGT(pct_change, 0) THEN "up_slightly"
    ELSE IF FracLT(pct_change, -5) THEN "worsened_significantly"
    ELSE IF FracLT(pct_change, 0) THEN "down_slightly"
    ELSE "stable"

\* lines 54-77, on the sorted frame
MonthOverMonth(df_sorted) ==
    LET monthly_net == groupby_Month_sum(WithMonth(df_sorted))
    IN  IF Len(monthly_net) < 2 THEN <<[msg |-> "not_enough_months"]>>
        ELSE LET last == monthly_net[Len(monthly_net)].value
                 prev == monthly_net[Len(monthly_net) - 1].value
                 pct_change == Times100(Frac(last - prev, Abs(prev)))
             IN  IF NearZero(prev) THEN <<[msg |-> "prev_near_zero"]>>
                 ELSE <<[msg |-> TrendBand(pct_change), pct_change |-> pct_change]>>

\* every value the call may return (one for each outcome of the sort)
generate_month_over_month_insights(d) ==
    IF d = <<>> THEN {<<[msg |-> "no_data"]>>}
    ELSE {MonthOverMonth(df_sorted) : df_sorted \in sort_values_Date(d)}

----------------------------------------------------------------------------
(* detect_spending_concentration *)

ConcentrationBand(pct) ==
    IF FracGE(pct, 50) THEN "high_concentration"
    ELSE IF FracGE(pct, 35) THEN "notable"
    ELSE "largest"

detect_spending_concentration(sp) ==
    IF sp = <<>> \/ SeriesSum(sp) = 0 THEN [msg |-> "no_spending"]
    ELSE LET total == SeriesSum(sp)
             top == IdxMax(sp)
             top_cat == sp[top].index
             top_val == sp[top].value
             pct == Times100(Frac(top_val, total))
             n_cats == Len(sp)
         IN  [msg |-> ConcentrationBand(pct), top_cat |-> top_cat, pct |-> pct,
              note |-> (n_cats <= 3), n_cats |-> n_cats]

----------------------------------------------------------------------------
(* benchmark_spending and calculate_spending_opportunity *)

benchmarks == [Housing |-> 30, Transportation |-> 15, Groceries |-> 15]

\* the flag test, were it pct >= thresh + 5
BenchmarkOverInclusive(item, total) ==
    /\ item.index \in DOMAIN benchmarks
    /\ FracGE(Times100(Frac(item.value, total)), benchmarks[item.index] + 5)

\* lines 113-116: the category is in the table and over its threshold + 5
BenchmarkOver(item, total) ==
    /\ item.index \in DOMAIN benchmarks
    /\ FracGT(Times100(Frac(item.value, total)), benchmarks[item.index] + 5)

benchmark_spending(sp) ==
    IF sp = <<>> \/ SeriesSum(sp) = 0 THEN <<[msg |-> "no_spending_to_benchmark"]>>
    ELSE LET total == SeriesSum(sp)
             over == SelectSeq(sp, LAMBDA item : BenchmarkOver(item, total))
             messages ==
                 [k \in 1..Len(over) |->
                     LET thresh == benchmarks[over[k].index]
                     IN  [msg |-> "over_benchmark", cat |-> over[k].index,
                          pct |-> Times100(Frac(over[k].value, total)),
                          diff |-> Frac(over[k].value * 100 - thresh * total, total)]]
         IN  IF messages # <<>> THEN messages ELSE <<[msg |-> "within_guidelines"]>>

\* the flag test, were the 5-point tolerance left out
OpportunityOverNoTolerance(item, total) ==
    /\ item.index \in DOMAIN benchmarks
    /\ FracGT(Times100(Frac(item.value, total)), benchmarks[item.index])

\* lines 132-135
OpportunityOver(item, total) ==
    /\ item.index \in DOMAIN benchmarks
    /\ FracGT(Times100(Frac(item.value, total)), benchmarks[item.index] + 5)

calculate_spending_opportunity(sp) ==
    IF sp = <<>> \/ SeriesSum(sp) = 0 THEN <<[msg |-> "no_opportunities_to_calculate"]>>
    ELSE LET total == SeriesSum(sp)
             over == SelectSeq(sp, LAMBDA item : OpportunityOver(item, total))
             messages ==
                 [k \in 1..Len(over) |->
                     LET thresh == benchmarks[over[k].index]
                         \* savings = val - (thresh / 100) * total
                     IN  [msg |-> "cut", cat |-> over[k].index,
                          savings |-> Frac(over[k].value * 100 - thresh * total, 100)]]
         IN  IF messages # <<>> THEN messages ELSE <<[msg |-> "no_quick_wins"]>>

----------------------------------------------------------------------------
(* detect_deficit_and_runway *)

\* monthly_net.iloc[0], the earliest month
LatestFirst(monthly_net) == monthly_net[1].value

\* monthly_net.iloc[-1]

Latest(monthly_net) == monthly_net[Len(monthly_net)].value

\* lines 147-154, on the sorted frame
DeficitOf(df_sorted) ==
    LET monthly_net == groupby_Month_sum(WithMonth(df_sorted))
    IN  IF monthly_net = <<>> THEN [msg |-> "no_monthly_summary"]
        ELSE LET latest == Latest(monthly_net)
             IN  IF latest >= 0 THEN [msg |-> "positive_or_balanced"]
                 ELSE [msg |-> "latest_month_deficit", magnitude |-> Abs(latest)]

detect_deficit_and_runway(d) ==
    IF d = <<>> THEN {[msg |-> "no_data"]}
    ELSE {DeficitOf(df_sorted) : df_sorted \in sort_values_Date(d)}

----------------------------------------------------------------------------
(* FinancialAnalyzer *)

EmptyStr == [msg |-> ""]

\* __init__
FinancialAnalyzerInit(d, selected_account) ==
    [df |-> WithMonth(SelectSeq(d, LAMBDA r : r.Account = selected_account)),
     total_income |-> 0,
     total_expenses |-> 0,
     monthly_summary |-> None,
     spending_by_cat |-> None,
     cumulative_flow |-> None,
     savings_health |-> EmptyStr,
     mom_insights |-> <<>>,
     concentration |-> EmptyStr,
     benchmarks |-> <<>>,
     opportunities |-> <<>>,
     deficit_info |-> EmptyStr]

\* self.df[self.df["Amount"] > 0]["Amount"].sum()
TotalIncome(frame) == SumAmount(SelectSeq(frame, LAMBDA r : r.Amount > 0))

\* self.df[self.df["Amount"] < 0]["Amount"].sum()
TotalExpenses(frame) == SumAmount(SelectSeq(frame, LAMBDA r : r.Amount < 0))

\* lines 184-188, the final sort_values left out
SpendingByCatUnsorted(frame) ==
    {SeriesAbs(groupby_Category_sum(SelectSeq(frame, LAMBDA r : r.Amount < 0)))}

\* lines 184-190: every value the chain may give (one for each outcome of the sort)
SpendingByCat(frame) ==
    sort_values_descending(
        SeriesAbs(groupby_Category_sum(SelectSeq(frame, LAMBDA r : r.Amount < 0))))

RECURSIVE CumSum(_)
CumSum(frame) ==
    IF frame = <<>> THEN <<>>
    ELSE LET front == CumSum(SubSeq(frame, 1, Len(frame) - 1))
             before == IF front = <<>> THEN 0 ELSE front[Len(front)]
         IN  Append(front, before + frame[Len(frame)].Amount)

\* sorted_df.assign(Cumulative=sorted_df["Amount"].cumsum())
AssignCumulative(sorted_df) ==
    LET c == CumSum(sorted_df)
    IN  [i \in 1..Len(sorted_df) |-> [row |-> sorted_df[i], Cumulative |-> c[i]]]

\* the analyzer object, once constructed
Self == analyzer[1]

\* run
Run ==
    /\ pc = "constructed"
    /\ pc' = "done"
    /\ IF Self.df = <<>>
       THEN analyzer' = analyzer
       ELSE \E by_cat \in SpendingByCat(Self.df),
               sorted_df \in sort_values_Date(Self.df),
               mom \in generate_month_over_month_insights(Self.df),
               deficit \in detect_deficit_and_runway(Self.df) :
                analyzer' = Some(
                    [Self EXCEPT
                        !.total_income = TotalIncome(Self.df),
                        !.total_expenses = TotalExpenses(Self.df),
                        !.monthly_summary = Some(groupby_Month_sum(Self.df)),
                        !.spending_by_cat = Some(by_cat),
                        !.cumulative_flow = Some(AssignCumulative(sorted_df)),
                        !.savings_health =
                            calculate_savings_health(TotalIncome(Self.df),
                                                     TotalExpenses(Self.df)),
                        !.mom_insights = mom,
                        !.concentration = detect_spending_concentration(by_cat),
                        !.benchmarks = benchmark_spending(by_cat),
                        !.opportunities = calculate_spending_opportunity(by_cat),
                        !.deficit_info = deficit])
    /\ UNCHANGED <<raw_df, total_income, total_expenses, spending, df, ret>>

----------------------------------------------------------------------------
(* The main script: the account and the date range are chosen, the loaded    *)
(* frame is cut to the range and the analyzer is built on it.                *)

AccountsOf(frame) == {frame[i].Account : i \in DOMAIN frame}

DatesOf(frame) == {frame[i].Date : i \in DOMAIN frame}

Select(selected_account, start_date, end_date) ==
    /\ pc = "main"
    /\ raw_df # <<>>
    /\ selected_account \in AccountsOf(raw_df)
    /\ start_date <= end_date
    /\ LET df_filtered ==
               SelectSeq(raw_df, LAMBDA r : r.Date >= start_date /\ r.Date <= end_date)
       IN  analyzer' = Some(FinancialAnalyzerInit(df_filtered, selected_account))
    /\ pc' = "constructed"
    /\ UNCHANGED <<raw_df, total_income, total_expenses, spending, df, ret>>

----------------------------------------------------------------------------
(* The analyzer run from the main script *)

MainRows ==
    {[Date |-> d, Amount |-> a, Category |-> c, Account |-> "Main Account"] :
        d \in {0, DaysPerMonth}, a \in {-3, -1, 4}, c \in {"Housing", "Dining"}}

SavingsRows ==
    {[Date |-> 0, Amount |-> -1, Category |-> "Housing", Account |-> "Savings"],
     [Date |-> DaysPerMonth, Amount |-> 4, Category |-> "Dining", Account |-> "Savings"]}

Init ==
    /\ pc = "main"
    /\ \E n \in 1..MaxRows : raw_df \in [1..n -> MainRows \cup SavingsRows]
    /\ analyzer = None
    /\ total_income = Unused
    /\ total_expenses = Unused
    /\ spending = Unused
    /\ df = Unused
    /\ ret = Unused

Next ==
    \/ \E selected_account \in AccountsOf(raw_df), start_date, end_date \in DatesOf(raw_df) :
            Select(selected_account, start_date, end_date)
    \/ Run

Spec == Init /\ [][Next]_vars

----------------------------------------------------------------------------
(* The helpers called on their own. An argument ranges over the values the   *)
(* helper's own guards provide for.                                          *)

Call(fn, value) ==
    /\ pc = "call"
    /\ pc' = "return"
    /\ ret' = [fn |-> fn, value |-> value]
    /\ UNCHANGED <<raw_df, analyzer, total_income, total_expenses, spending, df>>

CallSavingsHealth ==
    Call("calculate_savings_health", calculate_savings_health(total_income, total_expenses))

InitSavings ==
    /\ pc = "call"
    /\ total_income \in -1..MaxIncome
    /\ total_expenses \in -(MaxIncome + 4)..0
    /\ raw_df = Unused
    /\ analyzer = Unused
    /\ spending = Unused
    /\ df = Unused
    /\ ret = Unused

NextSavings == CallSavingsHealth

SpecSavings == InitSavings /\ [][NextSavings]_vars

CallMonthOverMonth ==
    \E value \in generate_month_over_month_insights(df) :
        Call("generate_month_over_month_insights", value)

CallDeficit ==
    \E value \in detect_deficit_and_runway(df) :
        Call("detect_deficit_and_runway", value)

FrameRow(d, a) ==
    [Date |-> d, Amount |-> a, Category |-> "Housing", Account |-> "Main Account"]

\* two days of a first month, then a second and a third month
FrameRows ==
    {FrameRow(0, 40), FrameRow(1, -40)}
    \cup {FrameRow(DaysPerMonth, a) : a \in {-40, 0, 1, 40, 41}}
    \cup {FrameRow(2 * DaysPerMonth, a) : a \in {-40, 0, 38, 40, 42}}

InitFrame ==
    /\ pc = "call"
    /\ \E n \in 0..MaxTx : df \in [1..n -> FrameRows]
    /\ raw_df = Unused
    /\ analyzer = Unused
    /\ total_income = Unused
    /\ total_expenses = Unused
    /\ spending = Unused
    /\ ret = Unused

NextFrame ==
    \/ CallMonthOverMonth
    \/ CallDeficit

SpecFrame == InitFrame /\ [][NextFrame]_vars

CallConcentration ==
    Call("detect_spending_concentration", detect_spending_concentration(spending))

CallBenchmark ==
    Call("benchmark_spending", benchmark_spending(spending))

CallOpportunity ==
    Call("calculate_spending_opportunity", calculate_spending_opportunity(spending))

CategorySet == {Categories[i] : i \in DOMAIN Categories}

SpendValues == {0, 3, 6, 7}

\* the Series of n items over the categories c (each at most once) and values v
CategoryOrders(n) ==
    {c \in [1..n -> CategorySet] : \A i, j \in 1..n : i # j => c[i] # c[j]}

SeriesOf(c, v) == [k \in DOMAIN c |-> [index |-> c[k], value |-> v[k]]]

InitSpending ==
    /\ pc = "call"
    /\ \E n \in 0..MaxCats :
        \E c \in CategoryOrders(n), v \in [1..n -> SpendValues] :
            spending = SeriesOf(c, v)
    /\ raw_df = Unused
    /\ analyzer = Unused
    /\ total_income = Unused
    /\ total_expenses = Unused
    /\ df = Unused
    /\ ret = Unused

NextSpending ==
    \/ CallConcentration
    \/ CallBenchmark
    \/ CallOpportunity

SpecSpending == InitSpending /\ [][NextSpending]_vars

----------------------------------------------------------------------------
(* Properties *)

Returned(fn) == pc = "return" /\ ret.fn = fn

MaxOf(S) == CHOOSE x \in S : \A y \in S : y <= x

\* the months that have a transaction, and the net of one month
MonthsOf(frame) == {Month(frame[i].Date) : i \in DOMAIN frame}

NetOfMonth(frame, m) == SumAmount(SelectSeq(frame, LAMBDA r : Month(r.Date) = m))

LastMonth(frame) == MaxOf(MonthsOf(frame))

PrevMonth(frame) == MaxOf(MonthsOf(frame) \ {LastMonth(frame)})

\* C1: calculate_savings_health picks exactly one band, first match in the
\* order: income <= 0 is "no meaningful income"; else net = income + expenses
\* < 0 is the deficit band; else rate = net / income * 100 >= 25 is excellent,
\* >= 15 good, >= 5 moderate, otherwise low. A rate of exactly 25, 15 or 5 falls
\* in the upper band and a net of exactly 0 is low.
C1_SavingsBands ==
    Returned("calculate_savings_health") =>
        LET ti == total_income
            net == total_income + total_expenses
            band == ret.value.msg
        IN  /\ (band = "no_income") <=> (ti <= 0)
            /\ (band = "deficit") <=> (ti > 0 /\ net < 0)
            /\ (band = "excellent") <=> (ti > 0 /\ net >= 0 /\ 100 * net >= 25 * ti)
            /\ (band = "good") <=>
                   (ti > 0 /\ net >= 0 /\ 100 * net < 25 * ti /\ 100 * net >= 15 * ti)
            /\ (band = "moderate") <=>
                   (ti > 0 /\ net >= 0 /\ 100 * net < 15 * ti /\ 100 * net >= 5 * ti)
            /\ (band = "low") <=> (ti > 0 /\ net >= 0 /\ 100 * net < 5 * ti)
            /\ ti > 0 => ret.value.rate = Frac(100 * net, ti)

\* a rate of exactly 15 was classified
C1_Witness ==
    /\ Returned("calculate_savings_health")
    /\ total_income > 0
    /\ 100 * (total_income + total_expenses) = 15 * total_income
    /\ ret.value.msg = "good"

\* C2: generate_month_over_month_insights, whatever the input order: with fewer
\* than 2 distinct months it returns an insufficient-data message and no
\* percentage ("No data for analysis." for no rows, "Not enough months for
\* comparison." for one month); otherwise with prev and last the nets of the two
\* latest months, abs(prev) < 1 gives the near-zero message and no percentage,
\* and else pct = (last - prev) / abs(prev) * 100 is banded: > 5 significant
\* improvement, 0 < pct <= 5 slight improvement, 0 stable, -5 <= pct < 0 slight
\* decline, < -5 significant decline.
C2_TrendBands ==
    Returned("generate_month_over_month_insights") =>
        LET out == ret.value IN
        /\ Len(out) = 1
        /\ IF Cardinality(MonthsOf(df)) < 2
           THEN /\ out[1].msg = (IF df = <<>> THEN "no_data" ELSE "not_enough_months")
                /\ DOMAIN out[1] = {"msg"}
           ELSE LET last == NetOfMonth(df, LastMonth(df))
                    prev == NetOfMonth(df, PrevMonth(df))
                    n == (last - prev) * 100
                    d == Abs(prev)
                IN  IF Abs(prev) < UnitsPerDollar
                    THEN out[1].msg = "prev_near_zero" /\ DOMAIN out[1] = {"msg"}
                    ELSE /\ out[1].pct_change = Frac(n, d)
                         /\ (out[1].msg = "improved_significantly") <=> (n > 5 * d)
                         /\ (out[1].msg = "up_slightly") <=> (0 < n /\ n <= 5 * d)
                         /\ (out[1].msg = "stable") <=> (n = 0)
                         /\ (out[1].msg = "down_slightly") <=> (-5 * d <= n /\ n < 0)
                         /\ (out[1].msg = "worsened_significantly") <=> (n < -5 * d)

\* three months given latest first, the change between the two latest exactly 5%
C2_Witness ==
    /\ Returned("generate_month_over_month_insights")
    /\ Cardinality(MonthsOf(df)) = 3
    /\ df[1].Date > df[Len(df)].Date
    /\ ret.value[1].msg = "up_slightly"
    /\ ret.value[1].pct_change.num = 5 * ret.value[1].pct_change.den

\* the two latest months both net to zero
BothLatestZero ==
    /\ Returned("generate_month_over_month_insights")
    /\ Cardinality(MonthsOf(df)) >= 2
    /\ NetOfMonth(df, PrevMonth(df)) = 0
    /\ NetOfMonth(df, LastMonth(df)) = 0

\* C3, as stated: with prev = 0 and last = 0 the trend classifier returns the
\* "stable" message.
C3_ZeroZeroStable ==
    BothLatestZero => ret.value[1].msg = "stable"

\* C3, amended: with prev = 0 and last = 0 the trend classifier returns the
\* "previous month near zero" message; "stable" is returned only when
\* abs(prev) >= 1 and last = prev.
C3_ZeroZeroNearZero ==
    /\ BothLatestZero => ret.value = <<[msg |-> "prev_near_zero"]>>
    /\ (/\ Returned("generate_month_over_month_insights")
        /\ ret.value[1].msg = "stable")
       => /\ Cardinality(MonthsOf(df)) >= 2
          /\ Abs(NetOfMonth(df, PrevMonth(df))) >= UnitsPerDollar
          /\ NetOfMonth(df, LastMonth(df)) = NetOfMonth(df, PrevMonth(df))

C3_Witness ==
    BothLatestZero /\ ret.value[1].msg = "prev_near_zero"

\* the sum of the monthly nets (the sum of all amounts)
SumOfNets(frame) == SumAmount(frame)

\* C4: when the latest month's net is negative, at least 2 months exist and the
\* mean of the monthly nets is negative, the message of
\* detect_deficit_and_runway also holds a runway estimate,
\* abs(sum of the monthly nets / mean monthly net).
C4_Runway ==
    (/\ Returned("detect_deficit_and_runway")
     /\ df # <<>>
     /\ NetOfMonth(df, LastMonth(df)) < 0
     /\ Cardinality(MonthsOf(df)) >= 2
     /\ SumOfNets(df) < 0)
    => /\ ret.value.msg = "latest_month_deficit"
       /\ "runway" \in DOMAIN ret.value
       \* runway = abs(sum / (sum / months))
       /\ ret.value.runway.num * Abs(SumOfNets(df))
              = ret.value.runway.den * Abs(SumOfNets(df)) * Cardinality(MonthsOf(df))

\* C5: analysing an empty transaction set (__init__, then run) raises nothing and
\* leaves zero totals, empty (not missing) monthly nets, category spending and
\* cumulative flow, and each analyzer's own "no data" message.
C5_EmptyAnalysis ==
    (pc = "done" /\ Self.df = <<>>) =>
        /\ Self.total_income = 0
        /\ Self.total_expenses = 0
        /\ Self.monthly_summary = Some(<<>>)
        /\ Self.spending_by_cat = Some(<<>>)
        /\ Self.cumulative_flow = Some(<<>>)
        /\ Self.savings_health = [msg |-> "no_income"]
        /\ Self.mom_insights = <<[msg |-> "no_data"]>>
        /\ Self.concentration = [msg |-> "no_spending"]
        /\ Self.benchmarks = <<[msg |-> "no_spending_to_benchmark"]>>
        /\ Self.opportunities = <<[msg |-> "no_opportunities_to_calculate"]>>
        /\ Self.deficit_info = [msg |-> "no_data"]

\* the recommended share of a category of the table
InTable(c) == c \in {"Housing", "Transportation", "Groceries"}

Guideline(c) == IF c = "Housing" THEN 30 ELSE 15

\* the categories a list of messages names, in order
MessageCats(messages, kind) ==
    LET named == SelectSeq(messages, LAMBDA m : m.msg = kind)
    IN  [k \in 1..Len(named) |-> named[k].cat]

\* the items of the mapping that are over their guideline by more than 5 points
OverGuideline(sp) ==
    LET total == SeriesSum(sp)
        over == SelectSeq(sp, LAMBDA it :
                    InTable(it.index) /\ 100 * it.value > (Guideline(it.index) + 5) * total)
    IN  [k \in 1..Len(over) |-> over[k].index]

\* C6: with non-zero total spending, benchmark_spending warns about a category
\* if and only if it is in the table (Housing 30, Transportation 15,
\* Groceries 15) and its share is strictly greater than its benchmark plus 5
\* points; a category outside the table is never flagged; and the single
\* "within guidelines" message is returned exactly when nothing is flagged.
C6_Benchmark ==
    (Returned("benchmark_spending") /\ SeriesSum(spending) # 0) =>
        /\ MessageCats(ret.value, "over_benchmark") = OverGuideline(spending)
        /\ \A k \in DOMAIN ret.value : ret.value[k].msg \in {"over_benchmark", "within_guidelines"}
        /\ (ret.value = <<[msg |-> "within_guidelines"]>>) <=> (OverGuideline(spending) = <<>>)
        /\ \A k \in DOMAIN ret.value :
               ret.value[k].msg = "over_benchmark" => InTable(ret.value[k].cat)

\* Housing at exactly 35% of spending was not flagged
C6_Witness ==
    /\ Returned("benchmark_spending")
    /\ \E k \in DOMAIN spending :
           /\ spending[k].index = "Housing"
           /\ spending[k].value > 0
           /\ 100 * spending[k].value = 35 * SeriesSum(spending)
    /\ ret.value = <<[msg |-> "within_guidelines"]>>

ValueOf(sp, c) == sp[CHOOSE k \in DOMAIN sp : sp[k].index = c].value

\* C7: calculate_spending_opportunity flags the same categories, in the same
\* order, as benchmark_spending on the same mapping; the opportunity of a flagged
\* category is value - benchmark/100 * total, which is strictly positive; and it
\* returns "no quick wins" exactly when benchmark_spending returns "within
\* guidelines".
C7_Opportunity ==
    Returned("calculate_spending_opportunity") =>
        LET bench == benchmark_spending(spending)
            total == SeriesSum(spending)
        IN  /\ MessageCats(ret.value, "cut") = MessageCats(bench, "over_benchmark")
            /\ \A k \in DOMAIN ret.value :
                   ret.value[k].msg = "cut" =>
                       /\ ret.value[k].savings.den = 100
                       /\ ret.value[k].savings.num =
                              100 * ValueOf(spending, ret.value[k].cat)
                                  - Guideline(ret.value[k].cat) * total
                       /\ ret.value[k].savings.num > 0
            /\ (ret.value = <<[msg |-> "no_quick_wins"]>>)
                   <=> (bench = <<[msg |-> "within_guidelines"]>>)

\* two categories were flagged, Housing at 40% among them
C7_Witness ==
    /\ Returned("calculate_spending_opportunity")
    /\ Len(MessageCats(ret.value, "cut")) = 2
    /\ \E k \in DOMAIN spending :
           /\ spending[k].index = "Housing"
           /\ 100 * spending[k].value = 40 * SeriesSum(spending)

\* C8: detect_spending_concentration on a non-empty mapping with non-zero total
\* reports the share pct = max / total * 100 of the first category holding the
\* maximum; pct lies in [0, 100] and is 100 for a single category; the band is
\* high when pct >= 50, notable when 35 <= pct < 50, "largest" otherwise; the
\* categorization note is appended exactly when there are at most 3 categories.
\* On an empty or zero-total mapping it returns the "no spending" message.
C8_Concentration ==
    Returned("detect_spending_concentration") =>
        IF spending = <<>> \/ SeriesSum(spending) = 0
        THEN ret.value = [msg |-> "no_spending"]
        ELSE LET total == SeriesSum(spending)
                 max == MaxOf({spending[k].value : k \in DOMAIN spending})
                 first == CHOOSE k \in DOMAIN spending :
                              /\ spending[k].value = max
                              /\ \A j \in 1..(k - 1) : spending[j].value # max
                 pct == ret.value.pct
             IN  /\ ret.value.top_cat = spending[first].index
                 /\ pct = Frac(100 * max, total)
                 /\ 0 <= pct.num /\ pct.num <= 100 * pct.den
                 /\ Len(spending) = 1 => pct.num = 100 * pct.den
                 /\ (ret.value.msg = "high_concentration") <=> (100 * max >= 50 * total)
                 /\ (ret.value.msg = "notable") <=>
                        (100 * max >= 35 * total /\ 100 * max < 50 * total)
                 /\ (ret.value.msg = "largest") <=> (100 * max < 35 * total)
                 /\ ret.value.note <=>
                        (Cardinality({spending[k].index : k \in DOMAIN spending}) <= 3)

\* two categories tie for the maximum at exactly 35%; the first is reported
C8_Witness ==
    /\ Returned("detect_spending_concentration")
    /\ Len(spending) = 3
    /\ spending[1].value = spending[2].value
    /\ spending[3].value < spending[1].value
    /\ ret.value.msg = "notable"
    /\ ret.value.pct.num = 35 * ret.value.pct.den
    /\ ret.value.top_cat = spending[1].index

\* C9: after run() on a non-empty account-filtered set: total_income >= 0,
\* total_expenses <= 0, every category_spending value is strictly positive and
\* belongs to a category with a negative-amount transaction, the mapping is in
\* descending order of value, and its values sum to abs(total_expenses).
C9_Aggregates ==
    (pc = "done" /\ Self.df # <<>>) =>
        LET sp == Self.spending_by_cat[1] IN
        /\ Self.total_income >= 0
        /\ Self.total_expenses <= 0
        /\ \A k \in DOMAIN sp :
               /\ sp[k].value > 0
               /\ \E i \in DOMAIN Self.df :
                      Self.df[i].Category = sp[k].index /\ Self.df[i].Amount < 0
        /\ \A k \in 1..(Len(sp) - 1) : sp[k].value >= sp[k + 1].value
        /\ SeriesSum(sp) = Abs(Self.total_expenses)

\* two categories of different spending, one of them from two transactions
C9_Witness ==
    /\ pc = "done"
    /\ Len(Self.df) = 3
    /\ \A i \in DOMAIN Self.df : Self.df[i].Amount < 0
    /\ Len(Self.spending_by_cat[1]) = 2
    /\ Self.spending_by_cat[1][1].value > Self.spending_by_cat[1][2].value
    /\ Self.spending_by_cat[1][1].index = "Housing"

\* C10: detect_deficit_and_runway decides on the net of the latest month that
\* has a transaction, whatever the input order: "No data." for no rows, the "no
\* deficit" message when that net is >= 0, otherwise a deficit message whose
\* magnitude is abs(net); a month without transactions is never the latest month.
C10_LatestMonth ==
    Returned("detect_deficit_and_runway") =>
        IF df = <<>> THEN ret.value = [msg |-> "no_data"]
        ELSE LET net == NetOfMonth(df, LastMonth(df))
             IN  IF net >= 0
                 THEN ret.value = [msg |-> "positive_or_balanced"]
                 ELSE /\ ret.value.msg = "latest_month_deficit"
                      /\ ret.value.magnitude = Abs(net)

\* rows of the first and the third month only, the later given first, the
\* third month in deficit and the first not
C10_Witness ==
    /\ Returned("detect_deficit_and_runway")
    /\ MonthsOf(df) = {0, 2}
    /\ df[1].Date > df[Len(df)].Date
    /\ NetOfMonth(df, 0) > 0
    /\ ret.value.msg = "latest_month_deficit"

====
